---- MODULE Spec2Model ----
(***************************************************************************)
(* Model of file-forensic-timeline (src/main.py): one run of main() over a *)
(* small filesystem.  A run validates the root path, opens the optional    *)
(* -o file, then either processes the single root file or walks the root   *)
(* directory, and emits one comma-separated line per inspected file.       *)
(* The operating system's answers (stat results, failures of stat, of      *)
(* directory listing and of writes) are the nondeterministic inputs.       *)
(***************************************************************************)
EXTENDS Integers, Sequences, FiniteSets, TLC

\* Largest number of filesystem entries below the root directory.
MaxEntries == 3

VARIABLES
    rootKind,    \* what args.path names: "missing","noaccess","file","dir","other"
    rootPath,    \* str(pathlib.Path(args.path)), a sequence of characters
    recursive,   \* args.recursive
    outputGiven, \* args.output is a non-empty string
    tree,        \* the entries below the root: sequence of [kind, parent, name]
    disk0,       \* contents of the -o file before the run (sequence of lines)
    disk,        \* contents of the -o file now
    pc,          \* position of the control flow in main()
    site,        \* call site process_file returns to: "none","single","walk"
    handle,      \* output_file_object: "none" (None), "open", "closed"
    opens,       \* number of successful open() calls
    closes,      \* number of close() calls
    out,         \* lines handed successfully to the sink (file or stdout), in order
    yielded,     \* entries already yielded by iterdir()/rglob("*")
    denied,      \* directories rglob could not list and skipped silently
    cur,         \* entry process_file is working on (0 is the root itself)
    metadata,    \* the dict returned by get_file_metadata, or "None"
    inspected,   \* history: one [id, st, stat, write] per process_file call
    walkError,   \* OSError caught at line 95: "none", "enum" or "print"
    errEntry,    \* entry whose listing or is_file() raised it (0: the root), else -1
    exc,         \* exception propagating out of main's try block: "none","OSError","Other"
    errors,      \* number of logging.error entries
    warnings     \* number of logging.warning entries

vars == <<rootKind, rootPath, recursive, outputGiven, tree, disk0, disk, pc, site,
          handle, opens, closes, out, yielded, denied, cur, metadata, inspected,
          walkError, errEntry, exc, errors, warnings>>

----------------------------------------------------------------------------
(* Characters and text conversions *)

Digits == <<"0", "1", "2", "3", "4", "5", "6", "7", "8", "9">>

DigitChar(d) == Digits[d + 1]

\* str(n) for a non-negative integer: decimal digits, no padding.
RECURSIVE IntStr(_)
IntStr(n) == IF n < 10 THEN <<DigitChar(n)>>
             ELSE IntStr(n \div 10) \o <<DigitChar(n % 10)>>

\* Zero-padded decimal of fixed width, as strftime-like "%02d", "%04d", "%06d".
RECURSIVE Pad(_, _)
Pad(n, width) == IF width = 0 THEN <<>>
                 ELSE Pad(n \div 10, width - 1) \o <<DigitChar(n % 10)>>

\* pathlib's PurePath.name: the final path segment.
RECURSIVE PathName(_)
PathName(p) == IF p = <<>> THEN <<>>
               ELSE IF p[Len(p)] = "/" THEN <<>>
               ELSE PathName(SubSeq(p, 1, Len(p) - 1)) \o <<p[Len(p)]>>

----------------------------------------------------------------------------
(* datetime.datetime.fromtimestamp(t).isoformat()                           *)
(* A timestamp is [days, secs, us]: whole days since 1970-01-01, seconds    *)
(* within the day and microseconds.  Local time is taken to be UTC.         *)

\* The proleptic Gregorian date [y, m, d] of a day number (days since epoch).
CivilFromDays(days) ==
    LET z   == days + 719468
        era == z \div 146097
        doe == z - era * 146097
        yoe == (doe - doe \div 1460 + doe \div 36524 - doe \div 146096) \div 365
        doy == doe - (365 * yoe + yoe \div 4 - yoe \div 100)
        mp  == (5 * doy + 2) \div 153
        d   == doy - (153 * mp + 2) \div 5 + 1
        m   == IF mp < 10 THEN mp + 3 ELSE mp - 9
        y   == yoe + era * 400 + (IF m <= 2 THEN 1 ELSE 0)
    IN  [y |-> y, m |-> m, d |-> d]

\* fromtimestamp raises ValueError ("year ... is out of range") beyond year 9999.
YearOutOfRange(ts) == CivilFromDays(ts.days).y > 9999

\* datetime.isoformat(): YYYY-MM-DDTHH:MM:SS, then .ffffff when microsecond # 0.
IsoFormat(ts) ==
    LET c == CivilFromDays(ts.days)
    IN  Pad(c.y, 4) \o <<"-">> \o Pad(c.m, 2) \o <<"-">> \o Pad(c.d, 2) \o <<"T">>
        \o Pad(ts.secs \div 3600, 2) \o <<":">>
        \o Pad((ts.secs \div 60) % 60, 2) \o <<":">>
        \o Pad(ts.secs % 60, 2)
        \o (IF ts.us = 0 THEN <<>> ELSE <<".">> \o Pad(ts.us, 6))

----------------------------------------------------------------------------
(* stat.filemode(st_mode) *)

\* mode & bit == bit, for a single-bit mask.
HasBit(mode, bit) == (mode \div bit) % 2 = 1

\* The file-type character, from S_IFMT(mode) = bits 12..15.
FileTypeChar(mode) ==
    LET fmt == (mode \div 4096) % 16
    IN  CASE fmt = 10 -> "l"
          [] fmt = 12 -> "s"
          [] fmt = 8  -> "-"
          [] fmt = 6  -> "b"
          [] fmt = 4  -> "d"
          [] fmt = 2  -> "c"
          [] fmt = 1  -> "p"
          [] OTHER    -> "?"

\* One rwx triple; special is setuid/setgid/sticky, lower/upper its two letters.
PermTriple(mode, r, w, x, special, lower, upper) ==
    << IF HasBit(mode, r) THEN "r" ELSE "-",
       IF HasBit(mode, w) THEN "w" ELSE "-",
       IF HasBit(mode, x) /\ HasBit(mode, special) THEN lower
       ELSE IF HasBit(mode, special) THEN upper
       ELSE IF HasBit(mode, x) THEN "x"
       ELSE "-" >>

FileMode(mode) ==
    <<FileTypeChar(mode)>>
    \o PermTriple(mode, 256, 128, 64, 2048, "s", "S")
    \o PermTriple(mode, 32, 16, 8, 1024, "s", "S")
    \o PermTriple(mode, 4, 2, 1, 512, "t", "T")

----------------------------------------------------------------------------
(* The operating system's stat results and the record built from them *)

\* Values os.stat can return for an entry; the last one carries a modification
\* time beyond year 9999, which fromtimestamp refuses.
StatResults ==
    << [st_size |-> 0,
        st_mtime |-> [days |-> 0, secs |-> 0, us |-> 0],
        st_atime |-> [days |-> 0, secs |-> 0, us |-> 0],
        st_ctime |-> [days |-> 0, secs |-> 0, us |-> 0],
        st_mode |-> 33188, st_uid |-> 0, st_gid |-> 0],
       [st_size |-> 1024,
        st_mtime |-> [days |-> 20394, secs |-> 67952, us |-> 998378],
        st_atime |-> [days |-> 20394, secs |-> 67953, us |-> 0],
        st_ctime |-> [days |-> 19782, secs |-> 86399, us |-> 5],
        st_mode |-> 35309, st_uid |-> 1000, st_gid |-> 100],
       [st_size |-> 7,
        st_mtime |-> [days |-> 2932897, secs |-> 0, us |-> 0],
        st_atime |-> [days |-> 0, secs |-> 0, us |-> 0],
        st_ctime |-> [days |-> 0, secs |-> 0, us |-> 0],
        st_mode |-> 33188, st_uid |-> 0, st_gid |-> 0] >>

\* Outcomes of file_path.stat() at line 34: a result, or one of the two failures
\* the function catches.
StatOutcomes == {"ok", "notfound", "oserror"}

\* The results stat can return for entry i (0 is the root): the first or the
\* second of StatResults, fixed by the entry, or the one with the far timestamp.
StatChoices(i) == {IF (i \div 2) % 2 = 0 THEN 1 ELSE 2, 3}

\* The three fromtimestamp calls of lines 40-42 raise ValueError for this result.
ConversionRaises(st) ==
    YearOutOfRange(st.st_mtime) \/ YearOutOfRange(st.st_atime)
        \/ YearOutOfRange(st.st_ctime)

\* The dict built at lines 36-46.
Metadata(path, st) ==
    [file_path     |-> path,
     file_name     |-> PathName(path),
     file_size     |-> st.st_size,
     modified_time |-> IsoFormat(st.st_mtime),
     accessed_time |-> IsoFormat(st.st_atime),
     created_time  |-> IsoFormat(st.st_ctime),
     permissions   |-> FileMode(st.st_mode),
     owner_uid     |-> st.st_uid,
     owner_gid     |-> st.st_gid]

\* A variant that leaves the last column out of the line.
OutputStringNoGid(md) ==
    md.modified_time \o <<",">> \o md.accessed_time \o <<",">> \o md.created_time
    \o <<",">> \o md.file_path \o <<",">> \o md.file_name
    \o <<",">> \o IntStr(md.file_size) \o <<",">> \o md.permissions
    \o <<",">> \o IntStr(md.owner_uid) \o <<"\n">>

\* The f-string of line 65: nine fields joined by commas, newline-terminated.
OutputString(md) ==
    md.modified_time \o <<",">> \o md.accessed_time \o <<",">> \o md.created_time
    \o <<",">> \o md.file_path \o <<",">> \o md.file_name
    \o <<",">> \o IntStr(md.file_size) \o <<",">> \o md.permissions
    \o <<",">> \o IntStr(md.owner_uid) \o <<",">> \o IntStr(md.owner_gid)
    \o <<"\n">>

----------------------------------------------------------------------------
(* The filesystem below the root *)

Kinds == {"file", "dir", "other"}

Letters == <<"a", "b", "c", "d", "e", "f">>

\* The name of entry i: its letter, and for every second entry a comma after it
\* (names are distinct, and files and directories of both sorts occur).
EntryNames(i) == {IF i % 2 = 0 THEN <<Letters[i], ",">> ELSE <<Letters[i]>>}

\* All trees of n entries: entry i hangs below the root (parent 0) or below an
\* earlier directory.
RECURSIVE Trees(_)
Trees(n) ==
    IF n = 0 THEN {<<>>}
    ELSE UNION { { Append(t, [kind |-> k, parent |-> p, name |-> nm]) :
                       k \in Kinds,
                       p \in {0} \cup {j \in 1..(n - 1) : t[j].kind = "dir"},
                       nm \in EntryNames(n) } :
                 t \in Trees(n - 1) }

AllTrees == UNION {Trees(n) : n \in 0..MaxEntries}

RootKinds == {"missing", "noaccess", "file", "dir", "other"}

RootPaths == {<<"r">>, <<"t", "/", "r", ",">>}

OldLine == <<"o", "l", "d", "\n">>

Entries == 1..Len(tree)

\* str(file_path) of entry i (0 is the root): parent path, "/", name.
RECURSIVE PathOf(_)
PathOf(i) == IF i = 0 THEN rootPath
             ELSE PathOf(tree[i].parent) \o <<"/">> \o tree[i].name

\* A variant of is_file() that also accepts directories.
IsFileOrDir(i) == tree[i].kind \in {"file", "dir"}

\* file_path.is_file() at lines 89 and 93.
IsFile(i) == tree[i].kind = "file"

\* Entries iterdir() (line 92) or rglob("*") (line 88) can yield next: direct
\* children of the root; with recursive, also children of a directory that has
\* been yielded and could be listed.
Candidates ==
    { i \in Entries \ yielded :
        /\ tree[i].parent \notin denied
        /\ \/ tree[i].parent = 0
           \/ recursive /\ tree[i].parent \in yielded }

----------------------------------------------------------------------------
(* The run *)

Init ==
    /\ rootKind \in RootKinds
    /\ rootPath \in RootPaths
    /\ recursive \in BOOLEAN
    /\ outputGiven \in BOOLEAN
    /\ tree \in (IF rootKind = "dir" THEN AllTrees ELSE {<<>>})
    /\ disk0 \in (IF outputGiven THEN {<<>>, <<OldLine>>} ELSE {<<>>})
    /\ disk = disk0
    /\ pc = "start"
    /\ site = "none"
    /\ handle = "none"
    /\ opens = 0
    /\ closes = 0
    /\ out = <<>>
    /\ yielded = {}
    /\ denied = {}
    /\ cur = 0
    /\ metadata = <<>>
    /\ inspected = <<>>
    /\ walkError = "none"
    /\ errEntry = -1
    /\ exc = "none"
    /\ errors = 0
    /\ warnings = 0

\* A variant of exists() that answers True for every path.
PathExistsAlways(kind) == {"true"}

\* path.exists() at line 111: False for a missing path, True for a present one;
\* for a path whose parent cannot be searched it answers False or raises,
\* depending on the Python version.
PathExists(kind) ==
    CASE kind = "missing"  -> {"false"}
      [] kind = "noaccess" -> {"false", "raise"}
      [] OTHER             -> {"true"}

\* A variant of the validation step that opens the output file first.
CheckExistsOpenFirst ==
    /\ pc = "start"
    /\ IF outputGiven
       THEN handle' = "open" /\ opens' = opens + 1 /\ disk' = <<>>
       ELSE UNCHANGED <<handle, opens, disk>>
    /\ \E r \in PathExists(rootKind) :
          \/ r = "false" /\ errors' = errors + 1 /\ pc' = "returned" /\ exc' = exc
          \/ r = "raise" /\ errors' = errors /\ pc' = "crashed" /\ exc' = "OSError"
          \/ r = "true" /\ errors' = errors /\ pc' = "dispatch" /\ exc' = exc
    /\ UNCHANGED <<rootKind, rootPath, recursive, outputGiven, tree, disk0, site,
                   closes, out, yielded, denied, cur, metadata, inspected,
                   walkError, errEntry, warnings>>

\* Lines 108-113: the input validation.
CheckExists ==
    /\ pc = "start"
    /\ \E r \in PathExists(rootKind) :
          \/ r = "false" /\ errors' = errors + 1 /\ pc' = "returned" /\ exc' = exc
          \/ r = "raise" /\ errors' = errors /\ pc' = "crashed" /\ exc' = "OSError"
          \/ r = "true" /\ errors' = errors /\ pc' = "open" /\ exc' = exc
    /\ UNCHANGED <<rootKind, rootPath, recursive, outputGiven, tree, disk0, disk,
                   site, handle, opens, closes, out, yielded, denied, cur,
                   metadata, inspected, walkError, errEntry, warnings>>

\* Lines 115-121: open(args.output, "w") truncates the file; a failed open is
\* logged and ends the run.
OpenOutput ==
    /\ pc = "open"
    /\ IF outputGiven
       THEN \E ok \in BOOLEAN :
               IF ok
               THEN /\ handle' = "open" /\ opens' = opens + 1 /\ disk' = <<>>
                    /\ pc' = "dispatch" /\ errors' = errors
               ELSE /\ errors' = errors + 1 /\ pc' = "returned"
                    /\ UNCHANGED <<handle, opens, disk>>
       ELSE pc' = "dispatch" /\ UNCHANGED <<handle, opens, disk, errors>>
    /\ UNCHANGED <<rootKind, rootPath, recursive, outputGiven, tree, disk0, site,
                   closes, out, yielded, denied, cur, metadata, inspected,
                   walkError, errEntry, exc, warnings>>

\* Lines 123-129: a file is processed directly, a directory is walked, anything
\* else is an invalid path type.
Dispatch ==
    /\ pc = "dispatch"
    /\ CASE rootKind = "file" ->
              pc' = "stat" /\ site' = "single" /\ cur' = 0 /\ errors' = errors
         [] rootKind = "dir" ->
              pc' = "walk" /\ site' = "walk" /\ cur' = cur /\ errors' = errors
         [] OTHER ->
              pc' = "finally" /\ site' = site /\ cur' = cur /\ errors' = errors + 1
    /\ UNCHANGED <<rootKind, rootPath, recursive, outputGiven, tree, disk0, disk,
                   handle, opens, closes, out, yielded, denied, metadata,
                   inspected, walkError, errEntry, exc, warnings>>

\* Whether entry i is a directory with something in it.
HasChildren(i) == \E j \in Entries : tree[j].parent = i

\* Lines 86-96: one step of the loop over iterdir() or rglob("*").  The iterator
\* yields the next entry and is_file() decides whether process_file is called;
\* an OSError from the listing or from is_file() is caught at line 95, logged
\* once, and ends process_directory.  rglob skips a directory it is denied to
\* list without raising.
Iterate ==
    /\ pc = "walk"
    /\ \/ \E e \in Candidates :
             /\ yielded' = yielded \cup {e}
             /\ \/ /\ errors' = errors + 1 /\ walkError' = "enum" /\ errEntry' = e
                   /\ pc' = "finally" /\ UNCHANGED <<cur, denied>>
                \/ /\ IsFile(e)
                   /\ cur' = e /\ pc' = "stat"
                   /\ UNCHANGED <<errors, walkError, errEntry, denied>>
                \/ /\ ~IsFile(e)
                   /\ pc' = "walk"
                   /\ \E d \in (IF recursive /\ tree[e].kind = "dir" /\ HasChildren(e)
                                THEN BOOLEAN ELSE {FALSE}) :
                         denied' = IF d THEN denied \cup {e} ELSE denied
                   /\ UNCHANGED <<errors, walkError, errEntry, cur>>
       \/ /\ yielded = {} /\ 0 \notin denied
          /\ errors' = errors + 1 /\ walkError' = "enum" /\ errEntry' = 0
          /\ pc' = "finally"
          /\ UNCHANGED <<yielded, cur, denied>>
       \/ /\ recursive /\ yielded = {} /\ 0 \notin denied /\ Entries # {}
          /\ denied' = denied \cup {0}
          /\ UNCHANGED <<yielded, cur, errors, walkError, errEntry, pc>>
       \/ /\ Candidates = {}
          /\ pc' = "finally"
          /\ UNCHANGED <<yielded, cur, denied, errors, walkError, errEntry>>
    /\ UNCHANGED <<rootKind, rootPath, recursive, outputGiven, tree, disk0, disk,
                   site, handle, opens, closes, out, metadata, inspected, exc,
                   warnings>>

\* Where control goes when process_file returns normally: back into the loop
\* of process_directory, or to main's finally clause.
ReturnTo(s) == IF s = "walk" THEN "walk" ELSE "finally"

\* A variant in which a failed stat ends the walk.
StatFailureAborts(s) == "finally"

\* Lines 48-53 and 74-75: a failed stat is logged, None is returned, process_file
\* logs a warning and returns normally.
StatFailureNext(s) == ReturnTo(s)

\* Lines 23-53 and 63-64: get_file_metadata as called by process_file.
GetFileMetadata ==
    /\ pc = "stat"
    /\ \E o \in StatOutcomes :
          IF o # "ok"
          THEN /\ errors' = errors + 1
               /\ warnings' = warnings + 1
               /\ inspected' = Append(inspected,
                      [id |-> cur, st |-> 0, stat |-> o, write |-> "none"])
               /\ metadata' = <<>>
               /\ pc' = StatFailureNext(site)
               /\ exc' = exc
          ELSE \E k \in StatChoices(cur) :
                  IF ConversionRaises(StatResults[k])
                  THEN /\ inspected' = Append(inspected,
                              [id |-> cur, st |-> k, stat |-> "converr", write |-> "none"])
                       /\ metadata' = <<>>
                       /\ exc' = "Other"
                       /\ pc' = "finally"
                       /\ UNCHANGED <<errors, warnings>>
                  ELSE /\ inspected' = Append(inspected,
                              [id |-> cur, st |-> k, stat |-> "ok", write |-> "pending"])
                       /\ metadata' = <<Metadata(PathOf(cur), StatResults[k])>>
                       /\ pc' = "write"
                       /\ UNCHANGED <<errors, warnings, exc>>
    /\ UNCHANGED <<rootKind, rootPath, recursive, outputGiven, tree, disk0, disk,
                   site, handle, opens, closes, out, yielded, denied, cur,
                   walkError, errEntry>>

\* A variant of the sink that puts the newest line first.
SinkPrepend(lines, line) == <<line>> \o lines

\* output_file.write(s) / print(s, end=""): the line goes after what was written.
SinkAppend(lines, line) == Append(lines, line)

\* The history with the write outcome of the last process_file call filled in.
Written(w) == [inspected EXCEPT ![Len(inspected)].write = w]

\* Lines 65-73: the record is formatted and written.  A failing write to the
\* -o file is caught and logged (lines 70-71); print() is not guarded, so its
\* exception leaves process_file: an OSError is caught by process_directory at
\* line 95, anything else (and any exception of a single-file run) leaves main.
WriteRecord ==
    /\ pc = "write"
    /\ LET line == OutputString(metadata[1])
       IN  IF handle # "none"
           THEN /\ \E ok \in (IF handle = "open" THEN BOOLEAN ELSE {FALSE}) :
                      IF ok
                      THEN /\ out' = SinkAppend(out, line)
                           /\ disk' = SinkAppend(disk, line)
                           /\ inspected' = Written("ok")
                           /\ errors' = errors
                      ELSE /\ errors' = errors + 1
                           /\ inspected' = Written("fail")
                           /\ UNCHANGED <<out, disk>>
                /\ pc' = ReturnTo(site)
                /\ UNCHANGED <<walkError, exc>>
           ELSE /\ disk' = disk
                /\ \/ /\ out' = SinkAppend(out, line)
                      /\ inspected' = Written("ok")
                      /\ pc' = ReturnTo(site)
                      /\ UNCHANGED <<errors, walkError, exc>>
                   \/ /\ inspected' = Written("fail")
                      /\ pc' = "finally"
                      /\ out' = out
                      /\ IF site = "walk"
                         THEN /\ errors' = errors + 1 /\ walkError' = "print"
                              /\ exc' = exc
                         ELSE /\ exc' = "OSError"
                              /\ UNCHANGED <<errors, walkError>>
                   \/ /\ inspected' = Written("fail")
                      /\ pc' = "finally"
                      /\ out' = out
                      /\ exc' = "Other"
                      /\ UNCHANGED <<errors, walkError>>
    /\ metadata' = <<>>
    /\ UNCHANGED <<rootKind, rootPath, recursive, outputGiven, tree, disk0, site,
                   handle, opens, closes, yielded, denied, cur, errEntry, warnings>>

\* A variant that closes the file only when no exception is propagating.
FinallyNoCloseOnError ==
    /\ pc = "finally"
    /\ IF handle # "none" /\ exc = "none"
       THEN handle' = "closed" /\ closes' = closes + 1
       ELSE UNCHANGED <<handle, closes>>
    /\ pc' = IF exc = "none" THEN "done" ELSE "crashed"
    /\ UNCHANGED <<rootKind, rootPath, recursive, outputGiven, tree, disk0, disk,
                   site, opens, out, yielded, denied, cur, metadata, inspected,
                   walkError, errEntry, exc, errors, warnings>>

\* Lines 130-132: the finally clause closes the file when one was opened, then
\* main returns, or the propagating exception leaves main.
Finally ==
    /\ pc = "finally"
    /\ IF handle # "none"
       THEN handle' = "closed" /\ closes' = closes + 1
       ELSE UNCHANGED <<handle, closes>>
    /\ pc' = IF exc = "none" THEN "done" ELSE "crashed"
    /\ UNCHANGED <<rootKind, rootPath, recursive, outputGiven, tree, disk0, disk,
                   site, opens, out, yielded, denied, cur, metadata, inspected,
                   walkError, errEntry, exc, errors, warnings>>

Next ==
    \/ CheckExists
    \/ OpenOutput
    \/ Dispatch
    \/ Iterate
    \/ GetFileMetadata
    \/ WriteRecord
    \/ Finally

Spec == Init /\ [][Next]_vars

----------------------------------------------------------------------------
(* Vocabulary of the properties *)

Terminal == pc \in {"returned", "done", "crashed"}

\* Number of occurrences of character c in sequence s.
Count(s, c) == Cardinality({i \in DOMAIN s : s[i] = c})

\* Number of comma-separated columns of a line.
Columns(line) == Count(line, ",") + 1

\* The run passed both validations of main (lines 111 and 116-121).
Validated == rootKind \in {"file", "dir", "other"} /\ pc \notin {"start", "open", "returned"}

StatFailed(r) == r.stat \in {"notfound", "oserror"}

ExtractionSucceeded(r) == r.stat = "ok"

WasWritten(r) == r.write = "ok"

\* The stat results whose timestamps fromtimestamp accepts.
Convertible == {k \in DOMAIN StatResults : ~ConversionRaises(StatResults[k])}

\* The record of each convertible stat result, for the empty path.
Converted == [k \in Convertible |-> Metadata(<<>>, StatResults[k])]

\* The line of the file at path p whose stat returned StatResults[k].
LineOf(p, k) ==
    OutputString([Converted[k] EXCEPT !.file_path = p, !.file_name = PathName(p)])

\* The lines the run can emit for entry i, one per convertible stat result.
LinesOf(i) ==
    LET p == PathOf(i) IN {LineOf(p, k) : k \in Convertible \cap StatChoices(i)}

\* How many emitted lines describe entry i.
CountLines(i) ==
    LET lines == LinesOf(i) IN Cardinality({k \in DOMAIN out : out[k] \in lines})

\* How many times process_file was called for entry i.
TimesInspected(i) == Cardinality({k \in DOMAIN inspected : inspected[k].id = i})

\* Entry i lies in the part of the tree the walk is asked to cover.
InScope(i) == recursive \/ tree[i].parent = 0

\* Entry i can be enumerated: in scope, with no ancestor rglob was denied to list.
RECURSIVE Listable(_)
Listable(i) ==
    IF i = 0 THEN 0 \notin denied
    ELSE InScope(i) /\ tree[i].parent \notin denied /\ Listable(tree[i].parent)

\* Entry i lies below entry a (every entry lies below the root, 0).
RECURSIVE Below(_, _)
Below(i, a) ==
    IF a = 0 THEN TRUE
    ELSE IF i = 0 THEN FALSE
    ELSE tree[i].parent = a \/ Below(tree[i].parent, a)

\* The only failures of the run so far are failed stats.
OnlyStatFaults ==
    /\ walkError = "none"
    /\ \A k \in DOMAIN inspected :
          inspected[k].stat # "converr" /\ inspected[k].write # "fail"

\* Nothing has failed so far: every listing, stat, conversion and write worked.
FaultFree ==
    /\ walkError = "none"
    /\ denied = {}
    /\ \A k \in DOMAIN inspected :
          inspected[k].stat = "ok" /\ inspected[k].write # "fail"

\* The process_file calls that are over (the last one is not while pc = "write").
Finished ==
    IF pc = "write" THEN SubSeq(inspected, 1, Len(inspected) - 1) ELSE inspected

\* The line process_file builds for history record r.
LineFor(r) == LineOf(PathOf(r.id), r.st)

----------------------------------------------------------------------------
(* C1: in a directory run a file whose stat fails (FileNotFoundError or     *)
(* another OSError) gets no line, and the failure does not stop the walk:   *)
(* when failed stats are the only failures of the run, the run does not     *)
(* crash and, once done, every enumerable regular file was passed to        *)
(* process_file exactly once and has exactly one line unless its stat       *)
(* failed.                                                                  *)
C1_StatFailureAbsorbed ==
    rootKind = "dir" =>
      /\ \A k \in DOMAIN inspected :
            StatFailed(inspected[k]) => CountLines(inspected[k].id) = 0
      /\ OnlyStatFaults =>
            /\ pc # "crashed"
            /\ pc = "done" =>
                 \A i \in Entries :
                    (tree[i].kind = "file" /\ Listable(i)) =>
                       /\ TimesInspected(i) = 1
                       /\ \A k \in DOMAIN inspected :
                             inspected[k].id = i =>
                                CountLines(i) = IF StatFailed(inspected[k]) THEN 0 ELSE 1

C1_Witness ==
    /\ rootKind = "dir" /\ pc = "done" /\ OnlyStatFaults
    /\ \E j, k \in DOMAIN inspected :
          /\ j < k
          /\ StatFailed(inspected[j])
          /\ ExtractionSucceeded(inspected[k])
          /\ CountLines(inspected[j].id) = 0
          /\ CountLines(inspected[k].id) = 1

(* C2: in a directory run in which nothing fails, a non-recursive walk emits *)
(* one line for each regular file that is a direct child of the root and a   *)
(* recursive walk one line for each regular file of the subtree, whatever    *)
(* the enumeration order; no other entry gets a line.                        *)
C2_ExactlyTheRegularFiles ==
    (rootKind = "dir" /\ pc = "done" /\ FaultFree) =>
      /\ \A i \in Entries :
            CountLines(i) =
               IF tree[i].kind = "file" /\ (recursive \/ tree[i].parent = 0)
               THEN 1 ELSE 0
      /\ Len(out) = Cardinality({i \in Entries :
                       tree[i].kind = "file" /\ (recursive \/ tree[i].parent = 0)})

C2_Witness ==
    /\ rootKind = "dir" /\ pc = "done" /\ FaultFree /\ recursive
    /\ \E i, j, d \in Entries :
          /\ tree[d].kind = "dir" /\ tree[i].kind = "file" /\ tree[i].parent = d
          /\ tree[j].kind = "file" /\ tree[j].parent = 0
          /\ CountLines(i) = 1 /\ CountLines(j) = 1 /\ CountLines(d) = 0

(* C3: a failing write of a record, to the -o file or to standard output,   *)
(* is logged and drops only that record: no exception leaves process_file   *)
(* and the walk is not ended by it.                                         *)
C3_WriteErrorAbsorbed ==
    \A k \in DOMAIN inspected :
       inspected[k].write = "fail" =>
          /\ exc = "none"
          /\ walkError # "print"
          /\ pc # "crashed"
          /\ errors >= 1

(* C4: after an OS error while enumerating a directory during a walk, one   *)
(* error is logged and the walk goes on: by the end of the run every        *)
(* enumerable regular file outside the entry that raised the error has been *)
(* processed.                                                               *)
C4_WalkGoesOnAfterEnumError ==
    (rootKind = "dir" /\ pc = "done" /\ walkError = "enum") =>
       \A i \in Entries :
          (tree[i].kind = "file" /\ Listable(i) /\ i # errEntry /\ ~Below(i, errEntry))
             => TimesInspected(i) = 1

(* C5: a run whose root path does not exist logs one error, processes no    *)
(* file, emits nothing and returns; no exception leaves main.               *)
C5_MissingRoot ==
    rootKind = "missing" =>
      /\ pc \in {"start", "returned"}
      /\ exc = "none"
      /\ out = <<>> /\ inspected = <<>> /\ yielded = {}
      /\ warnings = 0
      /\ errors = IF pc = "returned" THEN 1 ELSE 0

C5_Witness == rootKind = "missing" /\ pc = "returned" /\ errors = 1 /\ out = <<>>

\* The handle is None before a successful open, open from then until the one
\* close, closed afterwards; a run that has ended holds no open handle.
HandleState ==
    /\ opens <= 1
    /\ closes <= opens
    /\ (handle = "none") = (opens = 0)
    /\ (handle = "open") = (opens = 1 /\ closes = 0)
    /\ (handle = "closed") = (opens = 1 /\ closes = 1)
    /\ Terminal => closes = opens

(* C6: on every path through main the output file is opened at most once,  *)
(* closed exactly once if it was opened and never otherwise (also when the  *)
(* run ends by an early return or an exception), and nothing is written to  *)
(* it once it is closed.                                                    *)
C6_OpenedOnceClosedOnce ==
    /\ []HandleState
    /\ [][/\ opens' <= opens + 1
          /\ closes' <= closes + 1
          /\ handle = "closed" => (disk' = disk /\ handle' = "closed")]_vars

C6_Witness ==
    /\ pc = "crashed" /\ exc = "Other" /\ opens = 1 /\ closes = 1
    /\ handle = "closed" /\ Len(disk) >= 1

(* C7: a run that passed validation never ends crashed: whatever stat,      *)
(* directory listing or write fails, it ends in "done", and by then every   *)
(* enumerable regular file has been processed.                              *)
C7_ValidatedRunReachesDone ==
    Validated =>
      /\ pc # "crashed"
      /\ (pc = "done" /\ rootKind = "dir") =>
            \A i \in Entries :
               (tree[i].kind = "file" /\ Listable(i)) => TimesInspected(i) = 1
      /\ (pc = "done" /\ rootKind = "file") => Len(inspected) = 1

(* C8 as stated: every emitted line has exactly 9 comma-separated columns,  *)
(* also when the path or the name contains a comma.                         *)
C8_AlwaysNineColumns == \A k \in DOMAIN out : Columns(out[k]) = 9

(* C8 as amended: the k-th emitted line has 9 columns plus one for every    *)
(* comma in the file's path and one for every comma in its name; it has     *)
(* exactly 9 when the path contains no comma.                               *)
C8_NineColumnsPlusCommas ==
    LET emitted == SelectSeq(inspected, WasWritten)
    IN  /\ Len(out) = Len(emitted)
        /\ \A k \in DOMAIN out :
              LET path == PathOf(emitted[k].id)
              IN  /\ Columns(out[k]) =
                        9 + Count(path, ",") + Count(PathName(path), ",")
                  /\ Count(path, ",") = 0 => Columns(out[k]) = 9

C8_Witness ==
    \E j, k \in DOMAIN out : Columns(out[j]) = 9 /\ Columns(out[k]) = 11

(* C9: the emitted lines are the lines of the files process_file was called *)
(* for, in the order of the calls, one per record handed to the sink; each  *)
(* is written before the next path is inspected, no file is inspected       *)
(* twice, and when no write fails they are exactly the files whose          *)
(* extraction succeeded.                                                    *)
C9_OutputInTraversalOrder ==
    LET emitted == SelectSeq(inspected, WasWritten)
    IN  /\ out = [k \in 1..Len(emitted) |-> LineFor(emitted[k])]
        /\ \A k \in 1..(Len(inspected) - 1) : inspected[k].write # "pending"
        /\ \A j, k \in DOMAIN inspected : j # k => inspected[j].id # inspected[k].id
        /\ (\A k \in DOMAIN inspected : inspected[k].write # "fail") =>
              emitted = SelectSeq(Finished, ExtractionSucceeded)

C9_Witness ==
    /\ pc = "done" /\ Len(inspected) = 3 /\ Len(out) = 2
    /\ ExtractionSucceeded(inspected[1])
    /\ StatFailed(inspected[2])
    /\ ExtractionSucceeded(inspected[3])
    /\ out = <<LineFor(inspected[1]), LineFor(inspected[3])>>
    /\ out[1] # out[2]

(* C10: the root path is checked before the -o file is opened: when it does *)
(* not exist the file is never opened and keeps its contents; and when the  *)
(* open fails no file is inspected and nothing is emitted.                  *)
C10_ValidationBeforeOpen ==
    /\ rootKind = "missing" =>
          opens = 0 /\ handle = "none" /\ disk = disk0
    /\ (pc = "returned" /\ rootKind \notin {"missing", "noaccess"}) =>
          /\ opens = 0 /\ disk = disk0
          /\ inspected = <<>> /\ out = <<>> /\ yielded = {}

C10_Witness ==
    /\ rootKind = "missing" /\ pc = "returned" /\ outputGiven
    /\ disk0 = <<OldLine>> /\ disk = disk0 /\ opens = 0

====
